---- MODULE Spec2Model ----
(***************************************************************************)
(* A model of the C++ project scaffolding scripts: cpp_proj_manager.py     *)
(* (toolchain inventory, scaffold, reconcile, interactive menu),           *)
(* create_project.py (non-interactive scaffold) and install_cmake.py.      *)
(*                                                                         *)
(* File contents are byte strings, Python str values are TLA+ strings, and *)
(* the library conversions the code relies on (text-mode newline           *)
(* translation, str.strip, str(None), re.search, re.sub with its           *)
(* replacement template) are operators that compute what the library does. *)
(***************************************************************************)
EXTENDS Integers, Sequences, FiniteSets, TLC

VARIABLES
    machine,   \* the host: os.name, platform.system(), what is on the PATH
    fs,        \* the filesystem below the working directory
    call,      \* the last scaffold / reconcile call: arguments, filesystem before, outcome
    pc,        \* the running script and where it is: <<"manager", "menu">>, ...
    inv,       \* what check_all_tools returned to main
    probe,     \* the check_tool results of the last probing, in order
    extracted, \* the last extract_version call: its input and its result
    out,       \* the lines printed by the last step
    exit       \* how the script ended: None, or status and cause

vars == <<machine, fs, call, pc, inv, probe, extracted, out, exit>>

\* the state of a running script
progVars == <<pc, inv, probe, extracted, out, exit>>

(***************************************************************************)
(* Python values                                                           *)
(***************************************************************************)
\* None and a present value of an optional
None == <<>>

Some(s) == <<s>>

\* str(x) as an f-string applies it to an optional string
str(v) == IF v = None THEN "None" ELSE v[1]

NoExc == "none"

(***************************************************************************)
(* Strings                                                                 *)
(***************************************************************************)
Char(s, i) == SubSeq(s, i, i)

Slice(s, i, j) == IF i > j THEN "" ELSE SubSeq(s, i, j)

StartsWithAt(s, i, k) == i + Len(k) - 1 <= Len(s) /\ SubSeq(s, i, i + Len(k) - 1) = k

\* characters matched by \s, and stripped by str.strip()
Whitespace == {" ", "\t", "\n", "\r", "\f"}

\* first index >= i of a character in cs, or 0
RECURSIVE IndexOfAny(_, _, _)
IndexOfAny(s, cs, i) ==
    IF i > Len(s) THEN 0
    ELSE IF Char(s, i) \in cs THEN i
    ELSE IndexOfAny(s, cs, i + 1)

\* least element of a non-empty set of positions
First(P) == CHOOSE i \in P : \A j \in P : i <= j

\* the positions >= i of the characters of s that are in cs
Positions(s, cs, i) == {j \in i..Len(s) : Char(s, j) \in cs}

\* first index >= i where k starts, or 0
Find(s, k, i) ==
    LET P == {j \in i..(Len(s) - Len(k) + 1) : SubSeq(s, j, j + Len(k) - 1) = k} IN
    IF P = {} THEN 0 ELSE First(P)

RECURSIVE SkipWhitespace(_, _)
SkipWhitespace(s, i) ==
    IF i <= Len(s) /\ Char(s, i) \in Whitespace THEN SkipWhitespace(s, i + 1) ELSE i

RECURSIVE SkipWhitespaceBack(_, _)
SkipWhitespaceBack(s, j) ==
    IF j >= 1 /\ Char(s, j) \in Whitespace THEN SkipWhitespaceBack(s, j - 1) ELSE j

strip(s) == Slice(s, SkipWhitespace(s, 1), SkipWhitespaceBack(s, Len(s)))

UpperCase == <<"A","B","C","D","E","F","G","H","I","J","K","L","M",
               "N","O","P","Q","R","S","T","U","V","W","X","Y","Z">>

LowerCase == <<"a","b","c","d","e","f","g","h","i","j","k","l","m",
               "n","o","p","q","r","s","t","u","v","w","x","y","z">>

lower_char(c) ==
    IF \E k \in 1..26 : UpperCase[k] = c
    THEN LowerCase[CHOOSE k \in 1..26 : UpperCase[k] = c]
    ELSE c

RECURSIVE lower_from(_, _)
lower_from(s, i) == IF i > Len(s) THEN "" ELSE lower_char(Char(s, i)) \o lower_from(s, i + 1)

lower(s) == lower_from(s, 1)

(***************************************************************************)
(* The machine: the host environment the scripts query                     *)
(***************************************************************************)
\* executables looked up by find_tool_path
LookupTools == {"gdb", "g++", "cl"}

\* os.name -> "Windows"/"Linux"/"macOS"/"Unknown"
detect_os(m) ==
    IF m.os_name = "nt" THEN "Windows"
    ELSE IF m.os_name = "posix"
         THEN IF Find(lower(m.system), "darwin", 1) # 0 THEN "macOS" ELSE "Linux"
         ELSE "Unknown"

\* which/where: subprocess.run raises FileNotFoundError when the locator
\* itself is absent; otherwise the stripped stdout, or None when it is empty
find_tool_path(m, tool_name) ==
    LET os_type == detect_os(m) IN
    IF os_type \notin {"Windows", "Linux", "macOS"} THEN [exc |-> NoExc, val |-> None]
    ELSE IF m.locator # "started" THEN [exc |-> m.locator, val |-> None]
    ELSE LET tool_path == strip(m.stdout[tool_name]) IN
         [exc |-> NoExc, val |-> IF tool_path # "" THEN Some(tool_path) ELSE None]

(***************************************************************************)
(* Text-mode file I/O (open(path, "w") / open(path, "r+"), newline=None)   *)
(***************************************************************************)
linesep(m) == IF m.os_name = "nt" THEN "\r\n" ELSE "\n"

\* writing: every "\n" becomes os.linesep.  The text s[lo..hi] is translated
\* by halves; a stretch without "\n" is copied as it is.
RECURSIVE encode_range(_, _, _, _)
encode_range(m, s, lo, hi) ==
    IF lo > hi THEN ""
    ELSE IF \A j \in lo..hi : Char(s, j) # "\n" THEN SubSeq(s, lo, hi)
    ELSE IF lo = hi THEN linesep(m)
    ELSE LET mid == (lo + hi) \div 2 IN
         encode_range(m, s, lo, mid) \o encode_range(m, s, mid + 1, hi)

encode_text(m, s) == IF linesep(m) = "\n" THEN s ELSE encode_range(m, s, 1, Len(s))

\* reading: "\r\n" and a lone "\r" become "\n": a "\r" is read as "\n" and
\* the "\n" that follows a "\r" is dropped
RECURSIVE decode_range(_, _, _)
decode_range(s, lo, hi) ==
    IF lo > hi THEN ""
    ELSE IF \A j \in lo..hi : Char(s, j) # "\r" /\ (Char(s, j) = "\n" => (j = 1 \/ Char(s, j - 1) # "\r"))
         THEN SubSeq(s, lo, hi)
    ELSE IF lo = hi THEN (IF Char(s, lo) = "\r" THEN "\n" ELSE "")
    ELSE LET mid == (lo + hi) \div 2 IN
         decode_range(s, lo, mid) \o decode_range(s, mid + 1, hi)

decode_text(s) == decode_range(s, 1, Len(s))

(***************************************************************************)
(* The filesystem: a set of directories and a map path -> bytes            *)
(***************************************************************************)
NoFiles == [p \in {} |-> ""]

EmptyFS == [dirs |-> {}, files |-> NoFiles]

\* os.path.join of two relative components.  On nt the separator is "\\",
\* but "/" names the same entry there, so "/" is the canonical key.
os_path_join(a, b) == IF a = "" THEN b ELSE a \o "/" \o b

RECURSIVE LastSlash(_, _)
LastSlash(p, j) == IF j < 1 THEN 0 ELSE IF Char(p, j) = "/" THEN j ELSE LastSlash(p, j - 1)

dirname(p) == LET j == LastSlash(p, Len(p)) IN IF j = 0 THEN "" ELSE Slice(p, 1, j - 1)

RECURSIVE Ancestors(_)
Ancestors(p) == IF p = "" THEN {} ELSE {p} \cup Ancestors(dirname(p))

exists(f, p) == p \in f.dirs \/ p \in DOMAIN f.files

\* os.makedirs(p, exist_ok=True)
makedirs(f, p) ==
    IF p = "" THEN [exc |-> "FileNotFoundError", fs |-> f]
    ELSE IF \E a \in Ancestors(p) : a \in DOMAIN f.files
         THEN [exc |-> "FileExistsError", fs |-> f]
         ELSE [exc |-> NoExc, fs |-> [f EXCEPT !.dirs = @ \cup Ancestors(p)]]

\* write_file opening the file in append mode
write_file_append(m, f, p, text) ==
    IF dirname(p) # "" /\ dirname(p) \notin f.dirs THEN [exc |-> "FileNotFoundError", fs |-> f]
    ELSE IF p \in f.dirs THEN [exc |-> "IsADirectoryError", fs |-> f]
    ELSE [exc |-> NoExc,
          fs |-> [f EXCEPT !.files = [q \in DOMAIN f.files \cup {p} |->
                                        IF q = p
                                        THEN (IF p \in DOMAIN f.files THEN f.files[p] ELSE "")
                                             \o encode_text(m, text)
                                        ELSE f.files[q]]]]

\* with open(p, "w") as h: h.write(text)
write_file(m, f, p, text) ==
    IF dirname(p) # "" /\ dirname(p) \notin f.dirs THEN [exc |-> "FileNotFoundError", fs |-> f]
    ELSE IF p \in f.dirs THEN [exc |-> "IsADirectoryError", fs |-> f]
    ELSE [exc |-> NoExc,
          fs |-> [f EXCEPT !.files = [q \in DOMAIN f.files \cup {p} |->
                                        IF q = p THEN encode_text(m, text) ELSE f.files[q]]]]

\* The statements of a function body that touch the filesystem or raise,
\* in program order
Makedirs(p) == [kind |-> "makedirs", path |-> p, data |-> ""]

Write(p, text) == [kind |-> "write", path |-> p, data |-> text]

Raise(e) == [kind |-> "raise", path |-> e, data |-> ""]

\* Run ops[i..] in order and stop at the first exception.  n counts the
\* filesystem operations attempted so far; the fail-th one (fail > 0) is
\* refused by the operating system (permission denied, disk full).
RECURSIVE Exec(_, _, _, _, _, _)
Exec(m, ops, i, f, n, fail) ==
    IF i > Len(ops) THEN [exc |-> NoExc, fs |-> f]
    ELSE LET op == ops[i] IN
         IF op.kind = "raise" THEN [exc |-> op.path, fs |-> f]
         ELSE IF n + 1 = fail THEN [exc |-> "OSError", fs |-> f]
         ELSE LET r == IF op.kind = "makedirs" THEN makedirs(f, op.path)
                       ELSE write_file(m, f, op.path, op.data) IN
              IF r.exc # NoExc THEN r ELSE Exec(m, ops, i + 1, r.fs, n + 1, fail)

(***************************************************************************)
(* cpp_proj_manager.py: the generated documents                            *)
(***************************************************************************)
main_cpp == "\n#include <iostream>\n\nint main() {\n    std::cout << \"Hello, World!\" << std::endl;\n    return 0;\n}\n"

cmake_lists(project_name) == "\ncmake_minimum_required(VERSION 3.10)\nproject(" \o project_name \o ")\n\nset(CMAKE_CXX_STANDARD 17)\n\n# Add source files\nfile(GLOB_RECURSE SOURCES \"src/*.cpp\")\n\nadd_executable(" \o project_name \o " ${SOURCES})\n"

\* the text of launch.json before and after the debugger path
launch_json_head(project_name) == "\n{\n    \"version\": \"0.2.0\",\n    \"configurations\": [\n        {\n            \"name\": \"(gdb) Launch\",\n            \"type\": \"cppdbg\",\n            \"request\": \"launch\",\n            \"program\": \"${workspaceFolder}/build/" \o project_name \o "\",\n            \"args\": [],\n            \"stopAtEntry\": false,\n            \"cwd\": \"${workspaceFolder}\",\n            \"environment\": [],\n            \"externalConsole\": false,\n            \"MIMode\": \"gdb\",\n            \"setupCommands\": [\n                {\n                    \"description\": \"Enable pretty-printing for gdb\",\n                    \"text\": \"-enable-pretty-printing\",\n                    \"ignoreFailures\": true\n                }\n            ],\n            \"preLaunchTask\": \"build\",\n            \"miDebuggerPath\": \""

launch_json_tail == "\"\n        }\n    ]\n}\n"

launch_json(project_name, debugger_path) == launch_json_head(project_name) \o debugger_path \o launch_json_tail

tasks_json == "\n{\n    \"version\": \"2.0.0\",\n    \"tasks\": [\n        {\n            \"label\": \"build\",\n            \"type\": \"shell\",\n            \"command\": \"cmake --build build\",\n            \"group\": {\n                \"kind\": \"build\",\n                \"isDefault\": true\n            },\n            \"problemMatcher\": [\"$gcc\"],\n            \"detail\": \"Generated task for building the project.\"\n        }\n    ]\n}\n"

settings_json == "\n{\n    \"cmake.sourceDirectory\": \"${workspaceFolder}\",\n    \"C_Cpp.intelliSenseEngine\": \"Default\",\n    \"C_Cpp.default.configurationProvider\": \"ms-vscode.cmake-tools\"\n}\n"

c_cpp_properties_head(os_type) == "\n{\n    \"configurations\": [\n        {\n            \"name\": \"" \o os_type \o "\",\n            \"includePath\": [\n                \"${workspaceFolder}/include\",\n                \"${workspaceFolder}/src\"\n            ],\n            \"defines\": [],\n            \"compilerPath\": \""

c_cpp_properties_tail(os_type) == "\",\n            \"cStandard\": \"c17\",\n            \"cppStandard\": \"c++17\",\n            \"intelliSenseMode\": \"" \o lower(os_type) \o "-gcc-x64\" if os_type in [\"Linux\", \"macOS\"] else \"windows-msvc-x64\"\n        }\n    ],\n    \"version\": 4\n}\n"

c_cpp_properties_json(os_type, compiler_path) == c_cpp_properties_head(os_type) \o compiler_path \o c_cpp_properties_tail(os_type)

(***************************************************************************)
(* cpp_proj_manager.py: scaffold                                           *)
(***************************************************************************)
\* the relative paths of the generated documents
MainCpp(project_name) == os_path_join(os_path_join(project_name, "src"), "main.cpp")

CMakeLists(project_name) == os_path_join(project_name, "CMakeLists.txt")

VscodeDoc(project_name, doc) == os_path_join(os_path_join(project_name, ".vscode"), doc)

\* names bound at module level of cpp_proj_manager.py (imports and functions);
\* all of them are truthy objects
module_globals == {"os", "subprocess", "platform", "re", "detect_os", "extract_version",
                   "check_tool", "find_tool_path", "check_all_tools",
                   "create_project_structure", "create_vscode_config_files",
                   "edit_project_configurations", "main"}

\* names bound inside create_vscode_config_files before line 183
vscode_locals == {"project_name", "os_type", "compilers_found", "debuggers_found",
                  "vscode_folder", "launch_json_path", "debugger_path", "launch_file"}

\* evaluating a bare name inside create_vscode_config_files
name_lookup(name) ==
    IF name \in vscode_locals \cup module_globals THEN NoExc ELSE "NameError"

\* the statements of create_vscode_config_files, in order
create_vscode_config_files(m, project_name, os_type, compilers_found, debuggers_found) ==
    LET launch ==
            IF debuggers_found
            THEN LET r == IF os_type \in {"Linux", "macOS"} THEN find_tool_path(m, "gdb")
                          ELSE [exc |-> NoExc, val |-> Some("")] IN
                 IF r.exc # NoExc THEN <<Raise(r.exc)>>
                 ELSE <<Write(VscodeDoc(project_name, "launch.json"),
                              launch_json(project_name, str(r.val)))>>
            ELSE <<>>
        \* `if compilers_found and cmake_found:` evaluates cmake_found only
        \* when compilers_found is true
        tasks ==
            IF compilers_found
            THEN IF name_lookup("cmake_found") # NoExc THEN <<Raise(name_lookup("cmake_found"))>>
                 ELSE <<Write(VscodeDoc(project_name, "tasks.json"), tasks_json)>>
            ELSE <<>>
        settings == <<Write(VscodeDoc(project_name, "settings.json"), settings_json)>>
        properties ==
            IF compilers_found
            THEN LET r == IF os_type \in {"Linux", "macOS"} THEN find_tool_path(m, "g++")
                          ELSE find_tool_path(m, "cl") IN
                 IF r.exc # NoExc THEN <<Raise(r.exc)>>
                 ELSE <<Write(VscodeDoc(project_name, "c_cpp_properties.json"),
                              c_cpp_properties_json(os_type, str(r.val)))>>
            ELSE <<>>
    IN launch \o tasks \o settings \o properties

\* the directories created by create_project_structure, in order
project_dirs(project_name) ==
    <<project_name, os_path_join(project_name, "src"), os_path_join(project_name, "include"),
      os_path_join(project_name, "build"), os_path_join(project_name, ".vscode")>>

\* create_project_structure_body writing CMakeLists.txt whatever cmake_found is
create_project_structure_body_ungated(m, project_name, os_type, compilers_found, debuggers_found, cmake_found) ==
    [i \in 1..5 |-> Makedirs(project_dirs(project_name)[i])]
    \o <<Write(MainCpp(project_name), main_cpp)>>
    \o <<Write(CMakeLists(project_name), cmake_lists(project_name))>>
    \o create_vscode_config_files(m, project_name, os_type, compilers_found, debuggers_found)

\* the statements inside the try block of create_project_structure
create_project_structure_body(m, project_name, os_type, compilers_found, debuggers_found, cmake_found) ==
    [i \in 1..5 |-> Makedirs(project_dirs(project_name)[i])]
    \o <<Write(MainCpp(project_name), main_cpp)>>
    \o (IF cmake_found THEN <<Write(CMakeLists(project_name), cmake_lists(project_name))>> ELSE <<>>)
    \o create_vscode_config_files(m, project_name, os_type, compilers_found, debuggers_found)

SuccessMessage(project_name) == "Project '" \o project_name \o "' structure created successfully."

\* the exception's class name stands for its message text
ErrorMessage(exc) == "Error creating project structure: " \o exc

\* create_project_structure without its try/except: the exception escapes
create_project_structure_uncaught(m, f, project_name, os_type, compilers_found, debuggers_found, cmake_found, fail) ==
    LET r == Exec(m, create_project_structure_body(m, project_name, os_type, compilers_found,
                                                   debuggers_found, cmake_found), 1, f, 0, fail) IN
    [fs |-> r.fs,
     caught |-> NoExc,
     raised |-> r.exc,
     out |-> IF r.exc = NoExc THEN <<SuccessMessage(project_name)>> ELSE <<>>]

\* create_project_structure: run the body; `except Exception` catches
\* whatever it raises and prints it.  raised is what escapes to the caller.
create_project_structure(m, f, project_name, os_type, compilers_found, debuggers_found, cmake_found, fail) ==
    LET r == Exec(m, create_project_structure_body(m, project_name, os_type, compilers_found,
                                                   debuggers_found, cmake_found), 1, f, 0, fail) IN
    [fs |-> r.fs,
     caught |-> r.exc,
     raised |-> NoExc,
     out |-> IF r.exc = NoExc THEN <<SuccessMessage(project_name)>> ELSE <<ErrorMessage(r.exc)>>]

(***************************************************************************)
(* re.sub(r'"<key>":\s*".*?"', repl, config) as edit_project_configurations *)
(* uses it                                                                 *)
(***************************************************************************)
AsciiLetters == {UpperCase[k] : k \in 1..26} \cup {LowerCase[k] : k \in 1..26}

\* the escapes of a replacement template that denote a character a string
\* of the model can hold
TemplateEscapes == [c \in {"\\", "n", "t", "r", "f"} |->
                      CASE c = "\\" -> "\\" [] c = "n" -> "\n" [] c = "t" -> "\t"
                        [] c = "r" -> "\r" [] c = "f" -> "\f"]

\* escapes whose expansion is a control character, a group reference or an
\* octal code: no machine of the model has a tool path holding one, and the
\* evaluation stops if one is ever met
OutsideModel == {"a", "b", "v", "g", "0", "1", "2", "3", "4", "5", "6", "7", "8", "9"}

\* The replacement template is parsed before any match is replaced: "\\" and
\* the character escapes are expanded, a backslash before any other ASCII
\* letter is re.error ("bad escape"), a backslash before anything else stays.
RECURSIVE expand_from(_, _, _)
expand_from(t, i, acc) ==
    LET j == IndexOfAny(t, {"\\"}, i) IN
    IF j = 0 THEN [exc |-> NoExc, val |-> acc \o Slice(t, i, Len(t))]
    ELSE IF j = Len(t) THEN [exc |-> "re.error", val |-> ""]
    ELSE LET c == Char(t, j + 1) IN
         IF c \in DOMAIN TemplateEscapes
         THEN expand_from(t, j + 2, acc \o Slice(t, i, j - 1) \o TemplateEscapes[c])
         ELSE IF c \in OutsideModel THEN CHOOSE r \in {} : TRUE
         ELSE IF c \in AsciiLetters THEN [exc |-> "re.error", val |-> ""]
         ELSE expand_from(t, j + 2, acc \o Slice(t, i, j + 1))

expand_template(t) == expand_from(t, 1, "")

\* end of the match of "<key>":\s*".*?" starting at i, or 0: the key, any
\* whitespace, a quote, then the shortest run without a newline up to a quote
match_end(s, i, key) ==
    IF ~StartsWithAt(s, i, key) THEN 0
    ELSE LET q == SkipWhitespace(s, i + Len(key)) IN
         IF q > Len(s) \/ Char(s, q) # "\"" THEN 0
         ELSE LET e == IndexOfAny(s, {"\"", "\n"}, q + 1) IN
              IF e # 0 /\ Char(s, e) = "\"" THEN e ELSE 0

\* replace every non-overlapping match, leftmost first; pos is where the
\* unreplaced text starts, from where the search continues
RECURSIVE sub_from(_, _, _, _, _, _)
sub_from(s, key, rep, pos, from, acc) ==
    LET c == Find(s, key, from) IN
    IF c = 0 THEN acc \o Slice(s, pos, Len(s))
    ELSE LET e == match_end(s, c, key) IN
         IF e = 0 THEN sub_from(s, key, rep, pos, c + 1, acc)
         ELSE sub_from(s, key, rep, e + 1, e + 1, acc \o Slice(s, pos, c - 1) \o rep)

re_sub(key, repl, config) ==
    LET t == expand_template(repl) IN
    IF t.exc # NoExc THEN t
    ELSE [exc |-> NoExc, val |-> sub_from(config, key, t.val, 1, 1, "")]

(***************************************************************************)
(* cpp_proj_manager.py: reconcile                                          *)
(***************************************************************************)
CompilerKey == "\"compilerPath\":"

DebuggerKey == "\"miDebuggerPath\":"

\* one `if os.path.exists(path): with open(path, "r+") ...` block: read the
\* document, resolve the tool path, substitute, write the document back
edit_document(m, f, path, key, resolved) ==
    IF ~exists(f, path) THEN [exc |-> NoExc, fs |-> f]
    ELSE IF path \in f.dirs THEN [exc |-> "IsADirectoryError", fs |-> f]
    ELSE IF resolved.exc # NoExc THEN [exc |-> resolved.exc, fs |-> f]
    ELSE LET config == decode_text(f.files[path])
             r == re_sub(key, key \o " \"" \o str(resolved.val) \o "\"", config) IN
         IF r.exc # NoExc THEN [exc |-> r.exc, fs |-> f]
         ELSE [exc |-> NoExc, fs |-> [f EXCEPT !.files[path] = encode_text(m, r.val)]]

\* edit_project_configurations: the IntelliSense document, then the
\* debugger-launch document; an exception escapes to the caller
edit_project_configurations(m, f, project_path) ==
    LET vscode_folder == os_path_join(project_path, ".vscode")
        r1 == edit_document(m, f, os_path_join(vscode_folder, "c_cpp_properties.json"),
                            CompilerKey,
                            IF detect_os(m) \in {"Linux", "macOS"} THEN find_tool_path(m, "g++")
                            ELSE find_tool_path(m, "cl"))
    IN IF r1.exc # NoExc THEN [fs |-> r1.fs, raised |-> r1.exc]
       ELSE LET r2 == edit_document(m, r1.fs, os_path_join(vscode_folder, "launch.json"),
                                    DebuggerKey,
                                    IF detect_os(m) \in {"Linux", "macOS"} THEN find_tool_path(m, "gdb")
                                    ELSE [exc |-> NoExc, val |-> Some("")])
            IN [fs |-> r2.fs, raised |-> r2.exc]

(***************************************************************************)
(* create_project.py: the non-interactive scaffold                         *)
(***************************************************************************)
Digits == <<"0", "1", "2", "3", "4", "5", "6", "7", "8", "9">>

\* str(n) of a natural number
RECURSIVE int_str(_)
int_str(n) == IF n < 10 THEN Digits[n + 1] ELSE int_str(n \div 10) \o Digits[(n % 10) + 1]

cp_cmake_lists(project_name, cpp_version) == "cmake_minimum_required(VERSION 3.10)\n\n# Project name and version\nset(PROJECT_NAME " \o project_name \o ")\nproject(${PROJECT_NAME} VERSION 1.0)\n\n# Specify the C++ standard\nset(CMAKE_CXX_STANDARD " \o int_str(cpp_version) \o ")\nset(CMAKE_CXX_STANDARD_REQUIRED True)\n\n# Include directories\ninclude_directories(\n    include                    # Include headers specific to the project\n)\n\n# Source files\nfile(GLOB SOURCES \"src/*.cpp\") # Source files\n\n# Create executable\nadd_executable(${PROJECT_NAME} ${SOURCES})\n\n# Platform-specific settings\nif(MSVC)  # Check if using Microsoft Visual Studio\n    message(STATUS \"Configuring for Visual Studio\")\nelseif(UNIX)  # For Linux and macOS\n    message(STATUS \"Configuring for UNIX-based system\")\n    if(APPLE)  # Check if on macOS\n        set(CMAKE_MACOSX_RPATH ON)\n    endif()\nendif()\n\n# Output build info\nmessage(STATUS \"Project Name: " \o project_name \o "\")\nmessage(STATUS \"C++ Standard: " \o int_str(cpp_version) \o "\")\n"

cp_tasks_json == "{\n    \"version\": \"2.0.0\",\n    \"tasks\": [\n        {\n            \"label\": \"build\",\n            \"type\": \"shell\",\n            \"command\": \"cmake\",\n            \"args\": [\n                \"--build\",\n                \".\",\n                \"--config\",\n                \"Debug\"\n            ],\n            \"options\": {\n                \"cwd\": \"${workspaceFolder}/build\"\n            },\n            \"group\": {\n                \"kind\": \"build\",\n                \"isDefault\": true\n            },\n            \"problemMatcher\": [\n                \"$gcc\"\n            ]\n        }\n    ]\n}"

cp_launch_json == "{\n    \"version\": \"0.2.0\",\n    \"configurations\": [\n        {\n            \"name\": \"C++ Launch\",\n            \"type\": \"cppdbg\",\n            \"request\": \"launch\",\n            \"program\": \"${workspaceFolder}/build/${workspaceFolderBasename}\",\n            \"args\": [],\n            \"stopAtEntry\": false,\n            \"cwd\": \"${workspaceFolder}\",\n            \"environment\": [],\n            \"externalConsole\": false,\n            \"MIMode\": \"gdb\",\n            \"setupCommands\": [\n                {\n                    \"description\": \"Enable pretty-printing for gdb\",\n                    \"text\": \"-enable-pretty-printing\",\n                    \"ignoreFailures\": true\n                }\n            ],\n            \"preLaunchTask\": \"build\",\n            \"miDebuggerPath\": \"/usr/bin/gdb\"\n        }\n    ]\n}"

cp_c_cpp_properties_Windows == "{\n    \"configurations\": [\n        {\n            \"name\": \"Win32\",\n            \"includePath\": [\n                \"${workspaceFolder}/**\",\n                \"${workspaceFolder}/include/**\"\n            ],\n            \"defines\": [],\n            \"compilerPath\": \"g++\",\n            \"cStandard\": \"c11\",\n            \"cppStandard\": \"c++20\",\n            \"intelliSenseMode\": \"windows-gcc-x64\"\n        }\n    ],\n    \"version\": 4\n}"

cp_c_cpp_properties_Linux == "{\n    \"configurations\": [\n        {\n            \"name\": \"Linux\",\n            \"includePath\": [\n                \"${workspaceFolder}/**\",\n                \"${workspaceFolder}/include/**\"\n            ],\n            \"defines\": [],\n            \"compilerPath\": \"/usr/bin/gcc\",\n            \"cStandard\": \"c11\",\n            \"cppStandard\": \"c++20\",\n            \"intelliSenseMode\": \"linux-gcc-x64\"\n        }\n    ],\n    \"version\": 4\n}"

cp_c_cpp_properties_Darwin == "{\n    \"configurations\": [\n        {\n            \"name\": \"macOS\",\n            \"includePath\": [\n                \"${workspaceFolder}/**\",\n                \"${workspaceFolder}/include/**\"\n            ],\n            \"defines\": [],\n            \"compilerPath\": \"/usr/local/bin/gcc\",\n            \"cStandard\": \"c11\",\n            \"cppStandard\": \"c++20\",\n            \"intelliSenseMode\": \"macos-clang-x64\"\n        }\n    ],\n    \"version\": 4\n}"

cp_c_cpp_properties_FreeBSD == "{\n    \"configurations\": [],\n    \"version\": 4\n}"

cp_main_cpp == "#include <iostream>\n\nint main() {\n    std::cout << \"Hello, World!\" << std::endl;\n    return 0;\n}\n"

cp_detection_script == "import os\nimport json\nimport platform\n\ndef find_compiler_and_update_configs():\n    system = platform.system()\n    paths = {}\n\n    if system == \"Windows\":\n        mingw_path = os.path.join(os.environ.get('PROGRAMFILES', ''), 'mingw-w64', 'x86_64-<your_mingw_path>', 'bin', 'g++.exe')\n        vs_path = os.path.join(os.environ.get('PROGRAMFILES', ''), 'Microsoft Visual Studio', '2019', 'Community', 'VC', 'Tools', 'x64', 'bin', 'cl.exe')\n\n        if os.path.isfile(mingw_path):\n            paths['compilerPath'] = mingw_path\n            paths['miDebuggerPath'] = os.path.join(os.path.dirname(mingw_path), 'gdb.exe')\n        elif os.path.isfile(vs_path):\n            paths['compilerPath'] = vs_path\n            paths['miDebuggerPath'] = vs_path\n        else:\n            print(\"No suitable compiler found. Please install MinGW or Visual Studio.\")\n            return None\n\n    elif system == \"Linux\":\n        paths['compilerPath'] = \"/usr/bin/g++\"\n        paths['miDebuggerPath'] = \"/usr/bin/gdb\"\n\n        if not os.path.isfile(paths['compilerPath']):\n            print(f\"Compiler not found at {paths['compilerPath']}. Please ensure g++ is installed.\")\n            return None\n        if not os.path.isfile(paths['miDebuggerPath']):\n            print(f\"Debugger not found at {paths['miDebuggerPath']}. Please ensure gdb is installed.\")\n            return None\n\n    elif system == \"Darwin\":\n        paths['compilerPath'] = \"/usr/local/bin/g++\"\n        paths['miDebuggerPath'] = \"/usr/bin/lldb\"\n\n        if not os.path.isfile(paths['compilerPath']):\n            print(f\"Compiler not found at {paths['compilerPath']}. Please ensure g++ is installed.\")\n            return None\n        if not os.path.isfile(paths['miDebuggerPath']):\n            print(f\"Debugger not found at {paths['miDebuggerPath']}. Please ensure lldb is installed.\")\n            return None\n\n    else:\n        print(\"Unsupported operating system.\")\n        return None\n\n    update_json_configs(system, paths)\n\ndef update_json_configs(system, paths):\n    project_dir = os.getcwd()  # Get the current working directory\n    vscode_dir = os.path.join(project_dir, \".vscode\")\n    os.makedirs(vscode_dir, exist_ok=True)  # Ensure .vscode directory exists\n\n    # Update c_cpp_properties.json\n    c_cpp_properties = {\n        \"configurations\": [],\n        \"version\": 4\n    }\n\n    if system == \"Windows\":\n        c_cpp_properties[\"configurations\"].append({\n            \"name\": \"Win32\",\n            \"includePath\": [\"${workspaceFolder}/**\",\n                            \"${workspaceFolder}/include/**\"],\n            \"defines\": [],\n            \"compilerPath\": paths['compilerPath'],\n            \"cStandard\": \"c11\",\n            \"cppStandard\": \"c++20\",\n            \"intelliSenseMode\": \"windows-gcc-x64\"\n        })\n    elif system == \"Linux\":\n        c_cpp_properties[\"configurations\"].append({\n            \"name\": \"Linux\",\n            \"includePath\": [\"${workspaceFolder}/**\",\n                            \"${workspaceFolder}/include/**\"],\n            \"defines\": [],\n            \"compilerPath\": paths['compilerPath'],\n            \"cStandard\": \"c11\",\n            \"cppStandard\": \"c++20\",\n            \"intelliSenseMode\": \"linux-gcc-x64\"\n        })\n    elif system == \"Darwin\":\n        c_cpp_properties[\"configurations\"].append({\n            \"name\": \"macOS\",\n            \"includePath\": [\"${workspaceFolder}/**\",\n                            \"${workspaceFolder}/include/**\"],\n            \"defines\": [],\n            \"compilerPath\": paths['compilerPath'],\n            \"cStandard\": \"c11\",\n            \"cppStandard\": \"c++20\",\n            \"intelliSenseMode\": \"macos-clang-x64\"\n        })\n\n    with open(os.path.join(vscode_dir, \"c_cpp_properties.json\"), \"w\") as file:\n        json.dump(c_cpp_properties, file, indent=4)\n\nif __name__ == \"__main__\":\n    find_compiler_and_update_configs()\n"

\* json.dump of the IntelliSense document for platform.system()
cp_c_cpp_properties(m) ==
    CASE m.system = "Windows" -> cp_c_cpp_properties_Windows
      [] m.system = "Linux" -> cp_c_cpp_properties_Linux
      [] m.system = "Darwin" -> cp_c_cpp_properties_Darwin
      [] OTHER -> cp_c_cpp_properties_FreeBSD

\* the directories of create_directory_structure, in order
create_directory_structure(project_name) ==
    <<project_name, project_name \o "/include", project_name \o "/src", project_name \o "/lib",
      project_name \o "/build", project_name \o "/.vscode">>

\* the statements of create_project.py's main, in order
create_project_body(m, project_name, cpp_version) ==
    [i \in 1..6 |-> Makedirs(create_directory_structure(project_name)[i])]
    \o <<Write(CMakeLists(project_name), cp_cmake_lists(project_name, cpp_version)),
         Write(VscodeDoc(project_name, "tasks.json"), cp_tasks_json),
         Write(VscodeDoc(project_name, "launch.json"), cp_launch_json),
         Write(VscodeDoc(project_name, "c_cpp_properties.json"), cp_c_cpp_properties(m)),
         Write(MainCpp(project_name), cp_main_cpp),
         Write(os_path_join(project_name, "configure_project.py"), cp_detection_script)>>

\* create_project.py main: nothing is caught, an exception ends the process
create_project_main(m, f, project_name, cpp_version, fail) ==
    LET r == Exec(m, create_project_body(m, project_name, cpp_version), 1, f, 0, fail) IN
    [fs |-> r.fs, caught |-> NoExc, raised |-> r.exc,
     out |-> IF r.exc = NoExc THEN <<"Project '" \o project_name \o "' created successfully!">> ELSE <<>>]

(***************************************************************************)
(* Bounded inputs                                                          *)
(***************************************************************************)
\* executables probed by check_all_tools
Exes == {"cmake", "gcc", "g++", "cl", "gdb"}

NothingOnPath == [t \in LookupTools |-> ""]

AllStarted == [e \in Exes |-> "started"]

NoneStarted == [e \in Exes |-> "FileNotFoundError"]

\* what the version command of each executable prints
Banners == [e \in Exes |->
              CASE e = "cmake" -> [stdout |-> "cmake version 3.27.4\n", stderr |-> ""]
                [] e = "gcc" -> [stdout |-> "gcc (GCC) 11\n", stderr |-> ""]
                [] e = "g++" -> [stdout |-> "g++ (GCC) 11\n", stderr |-> ""]
                [] e = "cl" -> [stdout |-> "", stderr |-> "Microsoft (R) C/C++ Optimizing Compiler for x64\n"]
                [] e = "gdb" -> [stdout |-> "GNU gdb (GDB) 12.1\n", stderr |-> ""]]

Machine(os_name, system, locator, stdout, spawn) ==
    [os_name |-> os_name, system |-> system, locator |-> locator, stdout |-> stdout,
     spawn |-> spawn, banner |-> Banners]

LinuxStd == Machine("posix", "Linux", "started",
                    [t \in LookupTools |-> CASE t = "gdb" -> "/usr/bin/gdb\n"
                                             [] t = "g++" -> "/usr/bin/g++\n"
                                             [] t = "cl" -> ""], AllStarted)

LinuxBare == Machine("posix", "Linux", "started", NothingOnPath, NoneStarted)

\* a PATH directory whose name holds a double quote
MacQuoted == Machine("posix", "Darwin", "started",
                     [t \in LookupTools |-> CASE t = "gdb" -> "/opt/my\"tools/gdb\n"
                                              [] t = "g++" -> "/opt/my\"tools/g++\n"
                                              [] t = "cl" -> ""], AllStarted)

\* a minimal system without the `which` executable
LinuxNoWhich == Machine("posix", "Linux", "FileNotFoundError", NothingOnPath, AllStarted)

WindowsStd == Machine("nt", "Windows", "started",
                      [t \in LookupTools |-> CASE t = "gdb" -> "C:\\MinGW\\gdb.exe\n"
                                               [] t = "g++" -> "C:\\MinGW\\c++.exe\n"
                                               [] t = "cl" -> "C:\\VS\\cl.exe\n"], AllStarted)

WindowsBare == Machine("nt", "Windows", "started", NothingOnPath, NoneStarted)

\* os.name is neither "nt" nor "posix"
Jython == Machine("java", "Java", "started", NothingOnPath, NoneStarted)

Machines == {LinuxStd, LinuxBare, MacQuoted, LinuxNoWhich, WindowsStd, WindowsBare, Jython}

ProjectNames == {"demo", ""}

CppVersions == {20}

\* the longest scaffold runs 9 filesystem statements (5 makedirs, main.cpp,
\* CMakeLists.txt, launch.json, settings.json)
MaxIoFailPoint == 9

\* none of the filesystem statements of a scaffold fails (0), or the k-th
\* one does
IoFailPoints == 0..MaxIoFailPoint

\* documents grow when a substituted path holds a quote; reconcile is not
\* explored past this size
MaxDocumentBytes == 780

(***************************************************************************)
(* Direct calls of the scaffolding entry points                            *)
(***************************************************************************)
\* no directory or file at or below root
TargetEmpty(f, root) ==
    \A p \in f.dirs \cup DOMAIN f.files :
        root # "" /\ p # root /\ ~StartsWithAt(p, 1, root \o "/")

\* no script is running: the entry points are called directly
Idle == <<"none", "idle">>

NoCall == [op |-> "none", name |-> "", flags |-> <<FALSE, FALSE, FALSE>>,
           before |-> EmptyFS, caught |-> NoExc, raised |-> NoExc, out |-> <<>>,
           io_failed |-> FALSE, repeat |-> FALSE, prev_out |-> <<>>]

Init ==
    /\ machine \in Machines
    /\ fs = EmptyFS
    /\ call = NoCall
    /\ pc = Idle
    /\ inv = None
    /\ probe = <<>>
    /\ extracted = None
    /\ out = <<>>
    /\ exit = None

\* scaffold(name, inventory) on the current machine
Scaffold(project_name, compilers_found, debuggers_found, cmake_found, fail) ==
    \E r \in {create_project_structure(machine, fs, project_name, detect_os(machine),
                                         compilers_found, debuggers_found, cmake_found, fail)},
       flags \in {<<compilers_found, debuggers_found, cmake_found>>} :
       /\ fs' = r.fs
       /\ call' = [op |-> "scaffold", name |-> project_name, flags |-> flags,
                   before |-> fs, caught |-> r.caught, raised |-> r.raised, out |-> r.out,
                   io_failed |-> ("OSError" \in {r.caught, r.raised}),
                   repeat |-> /\ call.op = "scaffold" /\ call.name = project_name
                              /\ call.flags = flags
                              /\ ~call.io_failed /\ r.caught # "OSError"
                              /\ TargetEmpty(call.before, project_name),
                   prev_out |-> call.out]
       /\ UNCHANGED <<machine, progVars>>

\* python create_project.py <project_name> --cpp-version <cpp_version>
CreateProject(project_name, cpp_version) ==
    \E r \in {create_project_main(machine, fs, project_name, cpp_version, 0)} :
       /\ fs' = r.fs
       /\ call' = [NoCall EXCEPT !.op = "create_project", !.name = project_name,
                                 !.before = fs, !.raised = r.raised, !.out = r.out]
       /\ UNCHANGED <<machine, progVars>>

\* the filesystem refuses nothing here; refused statements are explored
\* from the menu of the manager (MenuCreate)
Next ==
    \/ \E n \in ProjectNames, c \in BOOLEAN, d \in BOOLEAN, g \in BOOLEAN :
          Scaffold(n, c, d, g, 0)
    \/ \E n \in ProjectNames, v \in CppVersions : CreateProject(n, v)

Spec == Init /\ [][Next]_vars

(***************************************************************************)
(* Properties of scaffold                                                  *)
(***************************************************************************)
IsFile(p) == p \in DOMAIN fs.files

\* the last call was a scaffold of a target that held nothing
ScaffoldedEmptyTarget == call.op = "scaffold" /\ TargetEmpty(call.before, call.name)

\* C1: after scaffold of a non-empty name with all three flags true on a
\* writable, empty target, src/main.cpp holds the Hello World stub and
\* CMakeLists.txt, launch.json, tasks.json and c_cpp_properties.json exist.
C1_AllDocumentsWritten ==
    (ScaffoldedEmptyTarget /\ call.name # "" /\ ~call.io_failed
       /\ call.flags = <<TRUE, TRUE, TRUE>>)
    => /\ IsFile(MainCpp(call.name))
       /\ fs.files[MainCpp(call.name)] = encode_text(machine, main_cpp)
       /\ IsFile(CMakeLists(call.name))
       /\ IsFile(VscodeDoc(call.name, "launch.json"))
       /\ IsFile(VscodeDoc(call.name, "tasks.json"))
       /\ IsFile(VscodeDoc(call.name, "c_cpp_properties.json"))

\* C2: after scaffold of an empty target, for every combination of the
\* flags, CMakeLists.txt is present only if the build generator was found,
\* launch.json only if a debugger was found, tasks.json only if a compiler
\* and the build generator were found, c_cpp_properties.json only if a
\* compiler was found.
C2_GatedDocuments ==
    ScaffoldedEmptyTarget
    => /\ IsFile(CMakeLists(call.name)) => call.flags[3]
       /\ IsFile(VscodeDoc(call.name, "launch.json")) => call.flags[2]
       /\ IsFile(VscodeDoc(call.name, "tasks.json")) => (call.flags[1] /\ call.flags[3])
       /\ IsFile(VscodeDoc(call.name, "c_cpp_properties.json")) => call.flags[1]

\* a scaffold with a debugger and without the build generator ran to the
\* end on an empty target: the stub and launch.json are there, CMakeLists.txt
\* is not
C2_Witness ==
    /\ ScaffoldedEmptyTarget /\ call.name = "demo" /\ call.caught = NoExc
    /\ call.flags = <<FALSE, TRUE, FALSE>>
    /\ IsFile(MainCpp("demo"))
    /\ IsFile(VscodeDoc("demo", "settings.json"))
    /\ IsFile(VscodeDoc("demo", "launch.json"))
    /\ ~IsFile(CMakeLists("demo"))
    /\ ~IsFile(VscodeDoc("demo", "tasks.json"))

\* the text str() gives for what find_tool_path reports for the debugger
ReportedDebugger == str(find_tool_path(machine, "gdb").val)

\* C3: after scaffold of an empty target, launch.json is absent when
\* debuggers_found is false; when it is true, on Windows, Linux and macOS,
\* launch.json exists and embeds the debugger path find_tool_path reports.
C3_DebuggerPathEmbedded ==
    (ScaffoldedEmptyTarget /\ call.name # "" /\ ~call.io_failed
       /\ detect_os(machine) \in {"Windows", "Linux", "macOS"})
    => IF call.flags[2]
       THEN /\ IsFile(VscodeDoc(call.name, "launch.json"))
            /\ fs.files[VscodeDoc(call.name, "launch.json")]
                 = encode_text(machine, launch_json(call.name, ReportedDebugger))
       ELSE ~IsFile(VscodeDoc(call.name, "launch.json"))

\* C4: a second scaffold of the same name with the same flags on the same
\* machine, right after the first one on an empty target, leaves the
\* directories and files as the first call left them and reports what the
\* first call reported.
C4_ScaffoldIdempotent ==
    (call.op = "scaffold" /\ call.repeat)
    => fs = call.before /\ call.out = call.prev_out

\* the second of two equal scaffolds has run and documents are on disk
C4_Witness ==
    /\ call.op = "scaffold" /\ call.repeat /\ call.name = "demo"
    /\ call.flags = <<FALSE, TRUE, TRUE>>
    /\ call.out = <<SuccessMessage("demo")>>
    /\ IsFile(CMakeLists("demo"))
    /\ IsFile(VscodeDoc("demo", "launch.json"))

(***************************************************************************)
(* Reconcile of a project generated earlier, possibly on another machine   *)
(***************************************************************************)
IntelliSenseDoc(project_path) == VscodeDoc(project_path, "c_cpp_properties.json")

LaunchDoc(project_path) == VscodeDoc(project_path, "launch.json")

\* the trees a project directory can hold when reconcile is asked to adapt
\* it: nothing, what the interactive manager generated on the machine
\* origin, or what create_project.py generated there
ExistingTrees ==
    {EmptyFS}
    \cup {create_project_structure(origin, EmptyFS, "demo", detect_os(origin),
                                   FALSE, TRUE, TRUE, 0).fs : origin \in Machines}
    \cup {create_project_main(origin, EmptyFS, "demo", v, 0).fs :
            origin \in Machines, v \in CppVersions}

InitReconcile ==
    /\ machine \in Machines
    /\ fs \in ExistingTrees
    /\ call = NoCall
    /\ pc = Idle
    /\ inv = None
    /\ probe = <<>>
    /\ extracted = None
    /\ out = <<>>
    /\ exit = None

\* reconcile(project_path) on the current machine
Reconcile(project_path) ==
    \E r \in {edit_project_configurations(machine, fs, project_path)} :
    /\ \A p \in {IntelliSenseDoc(project_path), LaunchDoc(project_path)} \cap DOMAIN fs.files :
          Len(fs.files[p]) <= MaxDocumentBytes
    /\ fs' = r.fs
    /\ call' = [op |-> "reconcile", name |-> project_path, flags |-> <<FALSE, FALSE, FALSE>>,
                before |-> fs, caught |-> NoExc, raised |-> r.raised,
                out |-> <<>>, io_failed |-> FALSE,
                repeat |-> call.op = "reconcile" /\ call.name = project_path,
                prev_out |-> call.out]
    /\ UNCHANGED <<machine, progVars>>

NextReconcile == \E n \in ProjectNames : Reconcile(n)

SpecReconcile == InitReconcile /\ [][NextReconcile]_vars

\* C5: a second reconcile of the same project on the same machine, right
\* after the first, leaves every document as the first run left it.
C5_ReconcileIdempotent ==
    (call.op = "reconcile" /\ call.repeat) => fs = call.before

\* the bytes of b outside the line that holds the field named by key (the
\* text before the key and the text from the end of that line on) are the
\* same in a; a document without the field is unchanged
OnlyFieldAltered(b, a, key) ==
    LET i == Find(b, key, 1) IN
    IF i = 0 THEN a = b
    ELSE LET ends == Positions(b, {"\r", "\n"}, i)
             rest == IF ends = {} THEN "" ELSE Slice(b, First(ends), Len(b)) IN
         /\ Len(a) >= (i - 1) + Len(rest)
         /\ Slice(a, 1, i - 1) = Slice(b, 1, i - 1)
         /\ Slice(a, Len(a) - Len(rest) + 1, Len(a)) = rest

\* C6: reconcile creates and removes nothing, leaves every file other than
\* the two documents as it was, and in c_cpp_properties.json and launch.json
\* changes no byte outside the compilerPath / miDebuggerPath field.
C6_OnlyPathFieldAltered ==
    call.op = "reconcile"
    => /\ fs.dirs = call.before.dirs
       /\ DOMAIN fs.files = DOMAIN call.before.files
       /\ \A p \in DOMAIN fs.files :
            IF p = IntelliSenseDoc(call.name)
            THEN OnlyFieldAltered(call.before.files[p], fs.files[p], CompilerKey)
            ELSE IF p = LaunchDoc(call.name)
            THEN OnlyFieldAltered(call.before.files[p], fs.files[p], DebuggerKey)
            ELSE fs.files[p] = call.before.files[p]

(***************************************************************************)
(* cpp_proj_manager.py: probing                                            *)
(***************************************************************************)
IsDigit(c) == \E k \in 1..10 : Digits[k] = c

\* the characters of \w
IsWord(c) == IsDigit(c) \/ c \in AsciiLetters \/ c = "_"

\* \b at the position between s[i-1] and s[i]
WordBoundary(s, i) ==
    LET before == i > 1 /\ IsWord(Char(s, i - 1))
        after == i <= Len(s) /\ IsWord(Char(s, i))
    IN before # after

\* last index of the run of digits that starts at i, or 0 when s[i] is no digit
RECURSIVE digits_end(_, _)
digits_end(s, i) ==
    IF i > Len(s) \/ ~IsDigit(Char(s, i)) THEN 0
    ELSE LET e == digits_end(s, i + 1) IN IF e = 0 THEN i ELSE e

\* end of a match of \d+(\.\d+){k-1}\b starting at i, or 0.  A run of
\* digits is taken whole: a shorter run is followed by a digit, where
\* neither "\." nor "\b" matches.
RECURSIVE components_end(_, _, _)
components_end(s, i, k) ==
    LET e == digits_end(s, i) IN
    IF e = 0 THEN 0
    ELSE IF k = 1 THEN (IF WordBoundary(s, e + 1) THEN e ELSE 0)
    ELSE IF e + 1 <= Len(s) /\ Char(s, e + 1) = "." THEN components_end(s, e + 2, k - 1)
    ELSE 0

\* end of the match of \b(\d+\.\d+\.\d+|\d+\.\d+|\d+)\b starting at i, or
\* 0: the alternatives are tried in the order written
version_match_end(s, i) ==
    IF ~WordBoundary(s, i) THEN 0
    ELSE IF components_end(s, i, 3) # 0 THEN components_end(s, i, 3)
    ELSE IF components_end(s, i, 2) # 0 THEN components_end(s, i, 2)
    ELSE components_end(s, i, 1)

\* re.search: the match at the leftmost position that has one
extract_version(output) ==
    LET P == {i \in 1..Len(output) : version_match_end(output, i) # 0} IN
    IF P = {} THEN None
    ELSE Some(SubSeq(output, First(P), version_match_end(output, First(P))))

\* `version or "Unknown"`
or_unknown(version) == IF version # None THEN version[1] ELSE "Unknown"

\* the dictionary check_tool returns when the command ran
installed(tool_name, shown) ==
    [name |-> tool_name, found |-> TRUE, version |-> Some(shown),
     message |-> tool_name \o " is installed. Version: " \o shown]

\* `result.stdout or result.stderr`
stdout_or_stderr(result) == IF result.stdout # "" THEN result.stdout ELSE result.stderr

\* check_tool: run check_command; only FileNotFoundError is caught
check_tool(m, tool_name, check_command) ==
    LET exe == check_command[1] IN
    IF m.spawn[exe] = "started"
    THEN [exc |-> NoExc,
          val |-> installed(tool_name, or_unknown(extract_version(stdout_or_stderr(m.banner[exe]))))]
    ELSE IF m.spawn[exe] = "FileNotFoundError"
    THEN [exc |-> NoExc,
          val |-> [name |-> tool_name, found |-> FALSE, version |-> None,
                   message |-> tool_name \o " is not installed."]]
    ELSE [exc |-> m.spawn[exe], val |-> None]

\* the tools probed on each platform, in probe order
tools_to_check(os_type) ==
    IF os_type = "Windows"
    THEN <<[name |-> "CMake", check_command |-> <<"cmake", "--version">>],
           [name |-> "MSVC", check_command |-> <<"cl">>],
           [name |-> "GDB", check_command |-> <<"gdb", "--version">>]>>
    ELSE IF os_type = "macOS" \/ os_type = "Linux"
    THEN <<[name |-> "CMake", check_command |-> <<"cmake", "--version">>],
           [name |-> "GCC", check_command |-> <<"gcc", "--version">>],
           [name |-> "G++", check_command |-> <<"g++", "--version">>],
           [name |-> "GDB", check_command |-> <<"gdb", "--version">>]>>
    ELSE <<>>

\* the loop body of check_all_tools with G++ left out of the compilers
fold_tool_narrow(acc, tool, result) ==
    [compilers_found |-> acc.compilers_found \/ (tool.name \in {"GCC", "MSVC"} /\ result.found),
     debuggers_found |-> acc.debuggers_found \/ (tool.name \in {"GDB"} /\ result.found),
     cmake_found |-> acc.cmake_found \/ (tool.name = "CMake" /\ result.found),
     missing_tools |-> IF ~result.found THEN Append(acc.missing_tools, tool.name)
                       ELSE acc.missing_tools]

\* the loop body of check_all_tools: fold one result into the flags and
\* the missing list
fold_tool(acc, tool, result) ==
    [compilers_found |-> acc.compilers_found \/ (tool.name \in {"GCC", "G++", "MSVC"} /\ result.found),
     debuggers_found |-> acc.debuggers_found \/ (tool.name \in {"GDB"} /\ result.found),
     cmake_found |-> acc.cmake_found \/ (tool.name = "CMake" /\ result.found),
     missing_tools |-> IF ~result.found THEN Append(acc.missing_tools, tool.name)
                       ELSE acc.missing_tools]

\* the for loop of check_all_tools from the i-th tool on; an exception of
\* check_tool ends it
RECURSIVE probe_from(_, _, _, _, _, _)
RECURSIVE probe_step(_, _, _, _, _, _, _)
probe_from(m, tools, i, acc, printed, probes) ==
    IF i > Len(tools) THEN [exc |-> NoExc, val |-> Some(acc), out |-> printed, probes |-> probes]
    ELSE probe_step(m, tools, i, acc, printed, probes,
                    check_tool(m, tools[i].name, tools[i].check_command))

\* one iteration, result being what check_tool gave for the i-th tool
probe_step(m, tools, i, acc, printed, probes, result) ==
    IF result.exc # NoExc
    THEN [exc |-> result.exc, val |-> None, out |-> printed,
          probes |-> Append(probes, [exe |-> tools[i].check_command[1],
                                     spawn |-> m.spawn[tools[i].check_command[1]],
                                     exc |-> result.exc, val |-> result.val])]
    ELSE probe_from(m, tools, i + 1, fold_tool(acc, tools[i], result.val),
                    Append(printed, result.val.message),
                    Append(probes, [exe |-> tools[i].check_command[1],
                                    spawn |-> m.spawn[tools[i].check_command[1]],
                                    exc |-> result.exc, val |-> result.val]))

\* check_all_tools: None on an unknown platform, else the three flags and
\* the missing list
check_all_tools(m) ==
    LET os_type == detect_os(m) IN
    IF os_type \notin {"Windows", "macOS", "Linux"}
    THEN [exc |-> NoExc, val |-> None, out |-> <<"Unknown operating system detected.">>,
          probes |-> <<>>]
    ELSE probe_from(m, tools_to_check(os_type), 1,
                    [compilers_found |-> FALSE, debuggers_found |-> FALSE,
                     cmake_found |-> FALSE, missing_tools |-> <<>>], <<>>, <<>>)

(***************************************************************************)
(* Probing one tool, and extracting a version from one output              *)
(***************************************************************************)
\* the characters tool outputs are built from: a digit, the dot, a
\* non-word separator and a letter
OutputAlphabet == {"1", ".", " ", "g"}

MaxOutputLen == 4

RECURSIVE Strings(_)
Strings(n) == IF n = 0 THEN {""} ELSE {""} \cup {c \o t : c \in OutputAlphabet, t \in Strings(n - 1)}

VersionOutputs ==
    Strings(MaxOutputLen)
    \cup {"cmake version 3.27.4", "g++ (GCC) 11", "no digits here", "gcc-11 (GCC) 11.4.0"}

SpawnOutcomes == {"started", "FileNotFoundError", "PermissionError"}

\* LinuxStd with the outcome of spawning cmake and what it prints replaced
ProbeMachines ==
    {[LinuxStd EXCEPT !.spawn["cmake"] = o, !.banner["cmake"] = [stdout |-> so, stderr |-> se]] :
        o \in SpawnOutcomes, so \in VersionOutputs, se \in {"", "1.1"}}

InitProbe ==
    /\ machine \in ProbeMachines
    /\ fs = EmptyFS
    /\ call = NoCall
    /\ pc = Idle
    /\ inv = None
    /\ probe = <<>>
    /\ extracted = None
    /\ out = <<>>
    /\ exit = None

\* extract_version(output) on what cmake printed on stdout
ExtractVersion ==
    /\ extracted = None
    /\ extracted' = [output |-> machine.banner["cmake"].stdout,
                     version |-> extract_version(machine.banner["cmake"].stdout)]
    /\ UNCHANGED <<machine, fs, call, pc, inv, probe, out, exit>>

\* check_tool(name, check_command) for the i-th tool of the platform
CheckTool(i) ==
    \E tool \in {tools_to_check(detect_os(machine))[i]} :
    \E result \in {check_tool(machine, tool.name, tool.check_command)} :
    /\ probe = <<>>
    /\ probe' = <<[exe |-> tool.check_command[1], spawn |-> machine.spawn[tool.check_command[1]],
                   exc |-> result.exc, val |-> result.val]>>
    /\ out' = IF result.exc = NoExc THEN <<result.val.message>> ELSE <<>>
    /\ UNCHANGED <<machine, fs, call, pc, inv, extracted, exit>>

NextProbe ==
    \/ ExtractVersion
    \/ \E i \in 1..2 : CheckTool(i)

SpecProbe == InitProbe /\ [][NextProbe]_vars

\* the first match of \b\d+(\.\d+){k-1}\b anywhere in s, or None
first_token(s, k) ==
    LET P == {i \in 1..Len(s) : WordBoundary(s, i) /\ components_end(s, i, k) # 0} IN
    IF P = {} THEN None ELSE Some(SubSeq(s, First(P), components_end(s, First(P), k)))

\* C8: extract_version returns the first three-component token d.d.d of the
\* output, else the first two-component token d.d, else the first bare
\* number, else none.
C8_DottedVersionPreferred ==
    extracted # None
    => extracted.version =
         IF first_token(extracted.output, 3) # None THEN first_token(extracted.output, 3)
         ELSE IF first_token(extracted.output, 2) # None THEN first_token(extracted.output, 2)
         ELSE first_token(extracted.output, 1)

\* what the probed command printed, as check_tool reads it
VersionOutput(e) ==
    IF machine.banner[e].stdout # "" THEN machine.banner[e].stdout ELSE machine.banner[e].stderr

\* C9: check_tool returns a result for every outcome of the spawn: found
\* false and no version when the executable is missing or cannot be
\* started, found true and version "Unknown" when it runs and its output
\* holds no version.
C9_ProbeNeverRaises ==
    \A k \in 1..Len(probe) :
        /\ probe[k].exc = NoExc
        /\ probe[k].spawn # "started"
             => (probe[k].val.found = FALSE /\ probe[k].val.version = None)
        /\ (probe[k].spawn = "started" /\ extract_version(VersionOutput(probe[k].exe)) = None)
             => (probe[k].val.found = TRUE /\ probe[k].val.version = Some("Unknown"))

(***************************************************************************)
(* The scripts as processes: cpp_proj_manager.py main, install_cmake.py    *)
(* main                                                                    *)
(***************************************************************************)
Terminated(prog) == <<prog, "terminated">>

\* the ways a Python process ends
Returned == [status |-> 0, by |-> "return", exc |-> NoExc]

SysExit(n) == [status |-> n, by |-> "sys.exit", exc |-> "SystemExit"]

\* an exception nobody catches: traceback, exit status 1
Unhandled(e) == [status |-> 1, by |-> "exception", exc |-> e]

\* every outcome of spawning each probed executable, on a host of each kind;
\* FreeBSD is posix and not Darwin
FreeBSD == Machine("posix", "FreeBSD", "started", NothingOnPath, AllStarted)

ManagerMachines ==
    {[b EXCEPT !.spawn = sp] : b \in {LinuxStd, MacQuoted, WindowsStd, Jython},
                               sp \in [Exes -> SpawnOutcomes]}

InstallerMachines == {LinuxStd, MacQuoted, WindowsStd, Jython, FreeBSD}

InitMain ==
    /\ \/ pc = <<"manager", "start">> /\ machine \in ManagerMachines
       \/ pc = <<"installer", "start">> /\ machine \in InstallerMachines
    /\ fs = EmptyFS
    /\ call = NoCall
    /\ inv = None
    /\ probe = <<>>
    /\ extracted = None
    /\ out = <<>>
    /\ exit = None

AllFound(i) == i.compilers_found /\ i.debuggers_found /\ i.cmake_found

InstallPrompts(missing_tools) ==
    [k \in 1..Len(missing_tools) |-> "Please install the missing tool: " \o missing_tools[k]]

\* main of cpp_proj_manager.py up to the first input(): the inventory is
\* unpacked into four names, then the menu is entered or the install
\* prompts are printed
ManagerStart ==
    /\ pc = <<"manager", "start">>
    /\ \E r \in {check_all_tools(machine)} :
       /\ probe' = r.probes
       /\ IF r.exc # NoExc
          THEN /\ pc' = Terminated("manager") /\ exit' = Unhandled(r.exc)
               /\ inv' = None /\ out' = r.out
          ELSE IF r.val = None
          THEN \* unpacking None raises TypeError
               /\ pc' = Terminated("manager") /\ exit' = Unhandled("TypeError")
               /\ inv' = None /\ out' = r.out
          ELSE IF AllFound(r.val[1])
          THEN /\ pc' = <<"manager", "menu">> /\ exit' = None
               /\ inv' = r.val /\ out' = r.out
          ELSE /\ pc' = Terminated("manager") /\ exit' = Returned
               /\ inv' = r.val /\ out' = r.out \o InstallPrompts(r.val[1].missing_tools)
       /\ UNCHANGED <<machine, fs, call, extracted>>

\* choice "1": create_project_structure with the flags of the inventory
MenuCreate(project_name, fail) ==
    /\ pc = <<"manager", "menu">>
    /\ \E r \in {create_project_structure(machine, fs, project_name, detect_os(machine),
                                            inv[1].compilers_found, inv[1].debuggers_found,
                                            inv[1].cmake_found, fail)} :
       /\ fs' = r.fs
       /\ out' = r.out
       /\ call' = [NoCall EXCEPT !.op = "scaffold", !.name = project_name,
                                 !.flags = <<inv[1].compilers_found, inv[1].debuggers_found,
                                             inv[1].cmake_found>>,
                                 !.before = fs, !.caught = r.caught, !.out = r.out,
                                 !.raised = r.raised,
                                 !.io_failed = ("OSError" \in {r.caught, r.raised})]
       \* main catches nothing: what escapes create_project_structure ends it
       /\ IF r.raised # NoExc
          THEN pc' = Terminated("manager") /\ exit' = Unhandled(r.raised)
          ELSE UNCHANGED <<pc, exit>>
       /\ UNCHANGED <<machine, inv, probe, extracted>>

\* choice "2": edit_project_configurations; its exceptions are not caught
MenuEdit(project_path) ==
    /\ pc = <<"manager", "menu">>
    /\ \E r \in {edit_project_configurations(machine, fs, project_path)} :
       /\ \A p \in {IntelliSenseDoc(project_path), LaunchDoc(project_path)} \cap DOMAIN fs.files :
             Len(fs.files[p]) <= MaxDocumentBytes
       /\ fs' = r.fs
       /\ out' = <<>>
       /\ call' = [NoCall EXCEPT !.op = "reconcile", !.name = project_path, !.before = fs,
                                 !.raised = r.raised]
       /\ IF r.raised # NoExc
          THEN pc' = Terminated("manager") /\ exit' = Unhandled(r.raised)
          ELSE UNCHANGED <<pc, exit>>
       /\ UNCHANGED <<machine, inv, probe, extracted>>

\* any other choice
MenuInvalid ==
    /\ pc = <<"manager", "menu">>
    /\ out' = <<"Invalid choice. Please try again.">>
    /\ call' = [NoCall EXCEPT !.op = "invalid"]
    /\ UNCHANGED <<machine, fs, pc, inv, probe, extracted, exit>>

\* choice "3"
MenuExit ==
    /\ pc = <<"manager", "menu">>
    /\ out' = <<"Exiting script.">>
    /\ pc' = Terminated("manager")
    /\ exit' = Returned
    /\ UNCHANGED <<machine, fs, call, inv, probe, extracted>>

\* outcomes of a child process of the installer: exit status 0, a non-zero
\* exit status, or an executable that is not there
StepOutcomes == {"ok", "nonzero", "missing"}

\* subprocess.run(..., check=True)
run_checked(o) ==
    IF o = "ok" THEN NoExc ELSE IF o = "nonzero" THEN "CalledProcessError" ELSE "FileNotFoundError"

Installer == "cmake_installer.msi"

\* main of install_cmake.py; a and b are the outcomes of its first and
\* second external step
install_main(m, f, a, b) ==
    IF m.system = "Windows"
    THEN \* urlretrieve to cmake_installer.msi, msiexec, os.remove
         IF a # "ok"
         THEN [fs |-> f, exit |-> Unhandled("URLError"), out |-> <<"Downloading CMake for Windows...">>]
         ELSE LET got == [f EXCEPT !.files = [q \in DOMAIN f.files \cup {Installer} |->
                                                IF q = Installer THEN "msi" ELSE f.files[q]]] IN
              IF run_checked(b) # NoExc
              THEN [fs |-> got, exit |-> Unhandled(run_checked(b)),
                    out |-> <<"Downloading CMake for Windows...", "Installing CMake...">>]
              ELSE [fs |-> [got EXCEPT !.files = [q \in DOMAIN got.files \ {Installer} |-> got.files[q]]],
                    exit |-> Returned,
                    out |-> <<"Downloading CMake for Windows...", "Installing CMake...",
                              "CMake installed successfully.">>]
    ELSE IF m.system = "Linux"
    THEN \* sudo apt-get update, sudo apt-get install cmake -y
         IF run_checked(a) # NoExc
         THEN [fs |-> f, exit |-> Unhandled(run_checked(a)), out |-> <<"Installing CMake for Linux...">>]
         ELSE IF run_checked(b) # NoExc
         THEN [fs |-> f, exit |-> Unhandled(run_checked(b)), out |-> <<"Installing CMake for Linux...">>]
         ELSE [fs |-> f, exit |-> Returned,
               out |-> <<"Installing CMake for Linux...", "CMake installed successfully.">>]
    ELSE IF m.system = "Darwin"
    THEN \* subprocess.call(["which", "brew"]) == 0, then brew install cmake
         IF a = "missing"
         THEN [fs |-> f, exit |-> Unhandled("FileNotFoundError"), out |-> <<"Installing CMake for macOS...">>]
         ELSE IF a = "nonzero"
         THEN [fs |-> f, exit |-> SysExit(1),
               out |-> <<"Installing CMake for macOS...",
                         "Homebrew is not installed. Please install Homebrew first.">>]
         ELSE IF run_checked(b) # NoExc
         THEN [fs |-> f, exit |-> Unhandled(run_checked(b)), out |-> <<"Installing CMake for macOS...">>]
         ELSE [fs |-> f, exit |-> Returned,
               out |-> <<"Installing CMake for macOS...", "CMake installed successfully.">>]
    ELSE [fs |-> f, exit |-> SysExit(1), out |-> <<"Unsupported operating system: " \o m.system>>]

InstallerMain(a, b) ==
    /\ pc = <<"installer", "start">>
    /\ \E r \in {install_main(machine, fs, a, b)} :
       /\ pc' = Terminated("installer")
       /\ fs' = r.fs
       /\ out' = r.out
       /\ exit' = r.exit
       /\ UNCHANGED <<machine, call, inv, probe, extracted>>

NextMain ==
    \/ ManagerStart
    \/ \E n \in ProjectNames, k \in IoFailPoints : MenuCreate(n, k)
    \/ \E n \in ProjectNames : MenuEdit(n)
    \/ MenuInvalid
    \/ MenuExit
    \/ \E a \in StepOutcomes, b \in StepOutcomes : InstallerMain(a, b)

SpecMain == InitMain /\ [][NextMain]_vars

\* the probed tools of the platform whose executable started
Started(tool) == machine.spawn[tool.check_command[1]] = "started"

ProbedTools == tools_to_check(detect_os(machine))

\* C7: the inventory main received holds, for every platform and every
\* combination of found / not found tools, the names of the tools that were
\* not found in probe order, debuggers_found iff GDB was found,
\* cmake_found iff CMake was found, compilers_found iff a compiler was found.
C7_InventoryFoldsProbes ==
    inv # None
    => /\ inv[1].missing_tools = [k \in 1..Len(SelectSeq(ProbedTools, LAMBDA t : ~Started(t))) |->
                                    SelectSeq(ProbedTools, LAMBDA t : ~Started(t))[k].name]
       /\ inv[1].debuggers_found = (machine.spawn["gdb"] = "started")
       /\ inv[1].cmake_found = (machine.spawn["cmake"] = "started")
       /\ inv[1].compilers_found =
            \E k \in 1..Len(ProbedTools) :
                ProbedTools[k].name \in {"GCC", "G++", "MSVC"} /\ Started(ProbedTools[k])

\* the inventory of a machine that has CMake and g++ but neither gcc nor gdb
C7_Witness ==
    /\ pc = Terminated("manager") /\ inv # None
    /\ detect_os(machine) = "Linux"
    /\ machine.spawn["gdb"] = "FileNotFoundError" /\ machine.spawn["gcc"] = "FileNotFoundError"
    /\ machine.spawn["g++"] = "started" /\ machine.spawn["cmake"] = "started"
    /\ inv[1].missing_tools = <<"GCC", "GDB">>
    /\ inv[1].compilers_found /\ ~inv[1].debuggers_found /\ inv[1].cmake_found

\* the platform the running script does not support
Unsupported ==
    \/ pc[1] = "manager" /\ detect_os(machine) = "Unknown"
    \/ pc[1] = "installer" /\ machine.system \notin {"Windows", "Linux", "Darwin"}

\* C10: on an unsupported platform each script reports the platform and
\* ends by a deliberate exit with a non-zero status: no unhandled
\* exception, no tool probed, no menu, no file written.
C10_UnsupportedPlatformExits ==
    /\ (Unsupported /\ pc[2] = "terminated")
         => /\ exit.by = "sys.exit" /\ exit.status # 0
            /\ out # <<>>
            /\ probe = <<>> /\ fs = EmptyFS
    /\ Unsupported => pc[2] # "menu"

(***************************************************************************)
(* I/O failures inside scaffold                                            *)
(***************************************************************************)
\* the filesystem after the statements ops[1..n], none of them refused
RECURSIVE StatementsDone(_, _, _)
StatementsDone(f, ops, n) ==
    IF n = 0 THEN f
    ELSE LET g == StatementsDone(f, ops, n - 1) IN
         IF ops[n].kind = "makedirs" THEN makedirs(g, ops[n].path).fs
         ELSE write_file(machine, g, ops[n].path, ops[n].data).fs

\* the statements of the last scaffold call
LastBody ==
    create_project_structure_body(machine, call.name, detect_os(machine),
                                  call.flags[1], call.flags[2], call.flags[3])

\* C11: when a makedirs or a file write of scaffold is refused, scaffold
\* prints the diagnostic and raises nothing: what the statements before the
\* refused one created is on disk, nothing that was there is gone, the
\* success message is not printed, and the menu loop goes on (the process
\* ends only by the exit choice).
C11_IoFailureReported ==
    (call.op = "scaffold" /\ call.io_failed)
    => /\ call.raised = NoExc
       /\ call.caught = "OSError"
       /\ call.out = <<ErrorMessage("OSError")>>
       /\ \A k \in 1..Len(call.out) : call.out[k] # SuccessMessage(call.name)
       /\ call.before.dirs \subseteq fs.dirs
       /\ DOMAIN call.before.files \subseteq DOMAIN fs.files
       /\ \E k \in 1..Len(LastBody) :
            /\ \A j \in 1..k : LastBody[j].kind # "raise"
            /\ fs = StatementsDone(call.before, LastBody, k - 1)
       /\ (pc = <<"manager", "menu">> \/ exit = Returned)

\* the menu loop is still running after the write of CMakeLists.txt was
\* refused: the directories and main.cpp are there, CMakeLists.txt is not
C11_Witness ==
    /\ call.op = "scaffold" /\ call.io_failed /\ call.name = "demo"
    /\ pc = <<"manager", "menu">>
    /\ call.before = EmptyFS
    /\ fs.dirs = {project_dirs("demo")[i] : i \in 1..5}
    /\ IsFile(MainCpp("demo"))
    /\ ~IsFile(CMakeLists("demo"))

(***************************************************************************)
(* The fixed subtree of a scaffolded project                               *)
(***************************************************************************)
\* the last call was one of the two scaffolding entry points, for a
\* non-empty name, and no filesystem statement of it was refused
ScaffoldCompleted ==
    /\ call.op \in {"scaffold", "create_project"}
    /\ call.name # ""
    /\ ~call.io_failed

FixedSubtree == {"src", "include", "lib", "build", ".vscode"}

\* C12: after a scaffold by either entry point that met no I/O failure,
\* src, include, lib, build and .vscode are directories under the project
\* root, whether or not they were there before.
C12_FixedSubtreeExists ==
    ScaffoldCompleted => \A d \in FixedSubtree : os_path_join(call.name, d) \in fs.dirs

(***************************************************************************)
(* The interactive manager in a working directory that may already hold a  *)
(* project                                                                 *)
(***************************************************************************)
\* what the working directory holds when the manager starts: nothing, or
\* the project "demo" that create_project.py generated on this machine
ProjectsPresent(m) ==
    {EmptyFS} \cup {create_project_main(m, EmptyFS, "demo", v, 0).fs : v \in CppVersions}

InitMenu ==
    /\ pc = <<"manager", "start">>
    /\ machine \in ManagerMachines
    /\ fs \in ProjectsPresent(machine)
    /\ call = NoCall
    /\ inv = None
    /\ probe = <<>>
    /\ extracted = None
    /\ out = <<>>
    /\ exit = None

NextMenu ==
    \/ ManagerStart
    \/ \E n \in ProjectNames : MenuCreate(n, 0)
    \/ \E n \in ProjectNames : MenuEdit(n)
    \/ MenuInvalid
    \/ MenuExit

SpecMenu == InitMenu /\ [][NextMenu]_vars

\* the startup inventory reported all three flags true
InventoryAllFound == inv # None /\ AllFound(inv[1])

\* the tools of the platform that are not there to be started
MissingTools == SelectSeq(ProbedTools, LAMBDA t : ~Started(t))

\* C13: scaffold and reconcile are called only in a run whose inventory
\* reported the three flags true; a run that ended without such an
\* inventory called neither, wrote nothing, and its output ends with one
\* install prompt per missing tool; a run that was offered the menu ends
\* only by the exit choice; the inventory main holds stays what
\* check_all_tools returned.
C13_MenuOnlyWhenAllFound ==
    /\ call.op \in {"scaffold", "reconcile", "invalid"} => InventoryAllFound
    /\ pc = <<"manager", "menu">> => InventoryAllFound
    /\ (pc = Terminated("manager") /\ ~InventoryAllFound)
         => /\ call.op = "none"
            /\ fs \in ProjectsPresent(machine)
            /\ Len(out) >= Len(MissingTools)
            /\ SubSeq(out, Len(out) - Len(MissingTools) + 1, Len(out))
                 = InstallPrompts([k \in 1..Len(MissingTools) |-> MissingTools[k].name])
    /\ (pc = Terminated("manager") /\ InventoryAllFound)
         => (exit = Returned /\ out = <<"Exiting script.">>)
    /\ inv # None => inv = check_all_tools(machine).val

====
